---- MODULE Spec2Model ----
(***************************************************************************)
(* A model of 0x02-redis_basic: exercise.py (the Cache class with its      *)
(* count_calls / call_history decorators and replay) and web.py (get_page  *)
(* with its count_url_access / cache_result decorators).                   *)
(*                                                                         *)
(* Text is modelled by what Python and Redis hold: a str is a sequence of  *)
(* code points, a bytes object a sequence of bytes (0..255).  Redis keys   *)
(* and values are bytes.  Both modules connect with redis.Redis(), that is *)
(* to the same database, so there is one key space, db.                    *)
(***************************************************************************)
EXTENDS Integers, Sequences, FiniteSets, TLC

\* ------------------------------------------------------------------ bounds
\* Calls started in one behaviour.
MaxCalls == 3
\* The callers whose steps may interleave.
Procs == {"c1", "c2"}

\* ------------------------------------------------------------------ text
\* "Cache.store", method.__qualname__ of Cache.store.
QualName == <<67, 97, 99, 104, 101, 46, 115, 116, 111, 114, 101>>
\* ":inputs" and ":outputs"
InputsSuffix == <<58, 105, 110, 112, 117, 116, 115>>
OutputsSuffix == <<58, 111, 117, 116, 112, 117, 116, 115>>
\* "count:"
CountPrefix == <<99, 111, 117, 110, 116, 58>>

RECURSIVE Digits(_)
\* The decimal digits of n >= 0, as ASCII.
Digits(n) == IF n < 10 THEN <<48 + n>> ELSE Digits(n \div 10) \o <<48 + (n % 10)>>

\* repr(n) of a Python int.
ReprInt(n) == IF n < 0 THEN <<45>> \o Digits(-n) ELSE Digits(n)

HexDigit(d) == IF d < 10 THEN 48 + d ELSE 87 + d

RECURSIVE ReprBytesBody(_)
\* The body of repr(b) of a Python bytes: printable ASCII as it is (quote and
\* backslash escaped), any other byte as \xhh.
ReprBytesBody(b) ==
  IF b = <<>> THEN <<>>
  ELSE LET c == Head(b)
           e == IF c = 92 \/ c = 39 THEN <<92, c>>
                ELSE IF c >= 32 /\ c <= 126 THEN <<c>>
                ELSE <<92, 120, HexDigit(c \div 16), HexDigit(c % 16)>>
       IN e \o ReprBytesBody(Tail(b))

\* The Python values a caller passes: a str (code points), a bytes, an int, None.
StrV(s) == [t |-> "str", v |-> s]
BytesV(b) == [t |-> "bytes", v |-> b]
IntV(n) == [t |-> "int", v |-> n]
NoneV == [t |-> "None", v |-> 0]

\* repr(x).  The strs of the model hold no quote, backslash or unprintable
\* character, so repr(s) is s between single quotes.
Repr(x) ==
  CASE x.t = "str" -> <<39>> \o x.v \o <<39>>
    [] x.t = "bytes" -> <<98, 39>> \o ReprBytesBody(x.v) \o <<39>>
    [] x.t = "int" -> ReprInt(x.v)
    [] x.t = "None" -> <<78, 111, 110, 101>>

\* str(args) for args = (data,): "(" repr(data) ",)".
StrArgs(data) == <<40>> \o Repr(data) \o <<44, 41>>

RECURSIVE Utf8Encode(_)
\* s.encode('utf-8') for code points below 65536.
Utf8Encode(s) ==
  IF s = <<>> THEN <<>>
  ELSE LET c == Head(s)
           e == IF c < 128 THEN <<c>>
                ELSE IF c < 2048 THEN <<192 + (c \div 64), 128 + (c % 64)>>
                ELSE <<224 + (c \div 4096), 128 + ((c \div 64) % 64), 128 + (c % 64)>>
       IN e \o Utf8Encode(Tail(s))

IsCont(b) == b >= 128 /\ b <= 191

\* The outcome of a conversion or of a Redis command: a value or an exception.
Ok(v) == [ok |-> TRUE, v |-> v]
Raise(e) == [ok |-> FALSE, exc |-> e]

RECURSIVE Utf8Decode(_)
\* b.decode('utf-8'): the code points, or UnicodeDecodeError.
Utf8Decode(b) ==
  IF b = <<>> THEN Ok(<<>>)
  ELSE LET c == Head(b)
           n == IF c < 128 THEN 1
                ELSE IF c >= 194 /\ c <= 223 THEN 2
                ELSE IF c >= 224 /\ c <= 239 THEN 3
                ELSE 0
           cp == IF n = 1 THEN c
                 ELSE IF n = 2 THEN (c - 192) * 64 + (b[2] - 128)
                 ELSE (c - 224) * 4096 + (b[2] - 128) * 64 + (b[3] - 128)
           good == /\ n > 0
                   /\ Len(b) >= n
                   /\ \A i \in 2..n : IsCont(b[i])
                   /\ n = 3 => (cp >= 2048 /\ ~(cp >= 55296 /\ cp <= 57343))
       IN IF ~good THEN Raise("UnicodeDecodeError")
          ELSE LET rest == Utf8Decode(SubSeq(b, n + 1, Len(b)))
               IN IF rest.ok THEN Ok(<<cp>> \o rest.v) ELSE rest

IsDigit(c) == c >= 48 /\ c <= 57
IsSpace(c) == c \in {9, 10, 11, 12, 13, 32}

RECURSIVE DigitsValue(_)
DigitsValue(d) ==
  IF d = <<>> THEN 0 ELSE DigitsValue(SubSeq(d, 1, Len(d) - 1)) * 10 + (d[Len(d)] - 48)

RECURSIVE Strip(_)
Strip(b) ==
  IF b = <<>> THEN b
  ELSE IF IsSpace(Head(b)) THEN Strip(Tail(b))
  ELSE IF IsSpace(b[Len(b)]) THEN Strip(SubSeq(b, 1, Len(b) - 1))
  ELSE b

\* int(b) of a Python bytes: surrounding whitespace dropped, an optional sign,
\* then one or more decimal digits; anything else is a ValueError.  (The bytes
\* of the model hold no underscore.)
PyInt(b) ==
  LET s == Strip(b)
      signed == s # <<>> /\ Head(s) \in {43, 45}
      d == IF signed THEN Tail(s) ELSE s
  IN IF d # <<>> /\ \A i \in 1..Len(d) : IsDigit(d[i])
     THEN Ok(IF signed /\ Head(s) = 45 THEN -DigitsValue(d) ELSE DigitsValue(d))
     ELSE Raise("ValueError")

\* ------------------------------------------------------------------ Redis
\* What redis.Redis() offers the two modules, by command.  An entry is a
\* string (bytes) or a list of bytes; exp is {} for an entry that does not
\* expire and {n} for one that expires n seconds from now.
StringE(b, exp) == [t |-> "string", v |-> b, exp |-> exp]
ListE(l) == [t |-> "list", v |-> l, exp |-> {}]

\* redis-py encodes a command argument: bytes as they are, a str as UTF-8, an
\* int as its repr; any other type (None among them) is a DataError.
Encode(x) ==
  CASE x.t = "bytes" -> Ok(x.v)
    [] x.t = "str" -> Ok(Utf8Encode(x.v))
    [] x.t = "int" -> Ok(ReprInt(x.v))
    [] OTHER -> Raise("DataError")

\* The database d with key k bound to entry e.
Bind(d, k, e) == [x \in DOMAIN d \cup {k} |-> IF x = k THEN e ELSE d[x]]

\* SET key value: any old entry, and its expiry, is replaced.  key is a str.
RedisSet(d, key, value) ==
  LET b == Encode(value)
  IN IF b.ok THEN [ok |-> TRUE, db |-> Bind(d, Utf8Encode(key), StringE(b.v, {}))]
     ELSE [ok |-> FALSE, exc |-> b.exc, db |-> d]

\* SETEX key seconds value.
RedisSetex(d, key, seconds, value) ==
  LET b == Encode(value)
  IN IF b.ok
     THEN [ok |-> TRUE, db |-> Bind(d, Utf8Encode(key), StringE(b.v, {seconds}))]
     ELSE [ok |-> FALSE, exc |-> b.exc, db |-> d]

\* GET key: None for a key that holds nothing, the bytes of a string, and a
\* WRONGTYPE error reply for a list.
RedisGet(d, key) ==
  LET k == Utf8Encode(key)
  IN IF k \notin DOMAIN d THEN Ok(NoneV)
     ELSE IF d[k].t = "string" THEN Ok(BytesV(d[k].v))
     ELSE Raise("ResponseError")

\* INCR key: a key that holds nothing counts as 0; the expiry is kept; a list
\* or a string that is no integer is an error reply.
RedisIncr(d, key) ==
  LET k == Utf8Encode(key)
  IN IF k \notin DOMAIN d
     THEN [ok |-> TRUE, db |-> Bind(d, k, StringE(ReprInt(1), {}))]
     ELSE IF d[k].t = "string" /\ PyInt(d[k].v).ok /\ ReprInt(PyInt(d[k].v).v) = d[k].v
     THEN [ok |-> TRUE, db |-> Bind(d, k, StringE(ReprInt(PyInt(d[k].v).v + 1), d[k].exp))]
     ELSE [ok |-> FALSE, exc |-> "ResponseError", db |-> d]

\* RPUSH key value.
RedisRpush(d, key, value) ==
  LET k == Utf8Encode(key)
      b == Encode(value)
  IN IF ~b.ok THEN [ok |-> FALSE, exc |-> b.exc, db |-> d]
     ELSE IF k \notin DOMAIN d THEN [ok |-> TRUE, db |-> Bind(d, k, ListE(<<b.v>>))]
     ELSE IF d[k].t = "list"
     THEN [ok |-> TRUE, db |-> Bind(d, k, ListE(Append(d[k].v, b.v)))]
     ELSE [ok |-> FALSE, exc |-> "ResponseError", db |-> d]

\* LRANGE key 0 -1.
RedisLrange(d, key) ==
  LET k == Utf8Encode(key)
  IN IF k \notin DOMAIN d THEN Ok(<<>>)
     ELSE IF d[k].t = "list" THEN Ok(d[k].v)
     ELSE Raise("ResponseError")

\* The passing of one second: every expiring entry is a second nearer its
\* expiry, and an entry that reaches it is gone.
Expire(d) ==
  [k \in {x \in DOMAIN d : d[x].exp # {1}} |->
     [d[k] EXCEPT !.exp = {n - 1 : n \in d[k].exp}]]

\* ------------------------------------------------------------------ state
VARIABLES
  db,        \* the Redis database: key (bytes) -> entry
  pc,        \* per caller: where its call stands ("idle": no call in progress)
  op,        \* per caller: the operation it called last
  arg,       \* per caller: the argument of that call
  loc,       \* per caller: the local variable the call keeps between commands
  res,       \* per caller: what its last finished call returned or raised
  printed,   \* per caller: the lines the call has printed
  conv,      \* per caller: whether the call applied the converter fn
  nfetch,    \* per caller: the times the call invoked the underlying fetch
  cid,       \* per caller: the number of its store call (history)
  started,   \* store and get_page calls started so far
  done,      \* history: store call number -> [arg, res] of each finished call
  inOwner,   \* history: the call that pushed each entry of ':inputs'
  outOwner,  \* history: the call that pushed each entry of ':outputs'
  calls,     \* history: url -> get_page(url) calls started
  since,     \* history: url -> {seconds since get_page last wrote its entry}
  lastRet,   \* history: url -> what the last finished get_page(url) returned
  site       \* url -> what fetching it yields now: the page's text, or an error

vars == <<db, pc, op, arg, loc, res, printed, conv, nfetch, cid, started, done,
          inOwner, outOwner, calls, since, lastRet, site>>

\* The data the callers pass to store: 'é', b'\xe9', 0, -7 and None.
Data == {StrV(<<233>>), BytesV(<<233>>), IntV(0), IntV(-7), NoneV}

\* str(uuid.uuid4()): the model's i-th identifier, "u<i>".
Uuid(i) == <<117>> \o Digits(i)

\* A key generator that returns the same identifier every time.
uuid4_fixed(d) == Uuid(1)

\* uuid.uuid4(): an identifier that no key of database d equals.  Which one it
\* is makes no difference to the program, so the model takes the first.
uuid4(d) == Uuid(CHOOSE i \in 1..(MaxCalls + 1) :
                   /\ Utf8Encode(Uuid(i)) \notin DOMAIN d
                   /\ \A j \in 1..(i - 1) : Utf8Encode(Uuid(j)) \in DOMAIN d)

input_key == QualName \o InputsSuffix
output_key == QualName \o OutputsSuffix

\* The keys the callers pass to get, get_str and get_int: the identifiers
\* store can return (returned yet or not), and the keys the decorators use.
GetKeys == {Uuid(i) : i \in 1..MaxCalls} \cup {QualName, input_key}

\* The urls the callers pass to get_page: "http://a" and "http://b", which
\* requests can fetch, and "count:http://a", for which it has no connection
\* adapter.
UrlA == <<104, 116, 116, 112, 58, 47, 47, 97>>
UrlB == <<104, 116, 116, 112, 58, 47, 47, 98>>
HttpUrls == {UrlA, UrlB}
Urls == HttpUrls \cup {CountPrefix \o UrlA}

\* The texts a page can have: '' and 'é'.
Contents == {<<>>, <<233>>}

\* expire=10 of @cache_result(expire=10).
TTL == 10

NoRes == [ok |-> TRUE, v |-> NoneV]
NoRet == [ok |-> FALSE, exc |-> "no call yet"]

\* Cache.__init__ has run: flushdb() left the database empty.
Init ==
  /\ db = <<>>
  /\ pc = [p \in Procs |-> "idle"]
  /\ op = [p \in Procs |-> "None"]
  /\ arg = [p \in Procs |-> NoneV]
  /\ loc = [p \in Procs |-> NoneV]
  /\ res = [p \in Procs |-> NoRes]
  /\ printed = [p \in Procs |-> <<>>]
  /\ conv = [p \in Procs |-> FALSE]
  /\ nfetch = [p \in Procs |-> 0]
  /\ cid = [p \in Procs |-> 0]
  /\ started = 0
  /\ done = <<>>
  /\ inOwner = <<>>
  /\ outOwner = <<>>
  /\ calls = [u \in Urls |-> 0]
  /\ since = [u \in Urls |-> {}]
  /\ lastRet = [u \in Urls |-> NoRet]
  /\ site = [u \in HttpUrls |-> Ok(StrV(<<233>>))]

\* Caller p calls o(a).
Enter(p, o, a) ==
  /\ pc[p] = "idle"
  /\ op' = [op EXCEPT ![p] = o]
  /\ arg' = [arg EXCEPT ![p] = a]
  /\ printed' = [printed EXCEPT ![p] = <<>>]
  /\ nfetch' = [nfetch EXCEPT ![p] = 0]

\* Caller p's call goes on at label, with l in its local variable.
Goto(p, label, l) ==
  /\ pc' = [pc EXCEPT ![p] = label]
  /\ loc' = [loc EXCEPT ![p] = l]
  /\ UNCHANGED res

\* Caller p's call ends with r, a value or an exception.
Leave(p, r) ==
  /\ pc' = [pc EXCEPT ![p] = "idle"]
  /\ loc' = [loc EXCEPT ![p] = NoneV]
  /\ res' = [res EXCEPT ![p] = r]

\* History: store call number n, store(a), has ended with r.
Log(n, a, r) ==
  [c \in DOMAIN done \cup {n} |-> IF c = n THEN [arg |-> a, res |-> r] ELSE done[c]]

web == <<calls, since, lastRet, site>>

\* call_history's wrapper without the push of the input before the call.
call_history_late(p, data) ==
  /\ Enter(p, "store", data)
  /\ started < MaxCalls
  /\ started' = started + 1
  /\ cid' = [cid EXCEPT ![p] = started + 1]
  /\ Goto(p, "count_calls", NoneV)
  /\ conv' = [conv EXCEPT ![p] = FALSE]
  /\ UNCHANGED <<db, done, inOwner, outOwner, web>>

\* ------------------------------------------------------------------ exercise.py
\* call_history's wrapper up to the call of the wrapped method: the input is
\* pushed to ':inputs'.
call_history(p, data) ==
  /\ Enter(p, "store", data)
  /\ started < MaxCalls
  /\ started' = started + 1
  /\ cid' = [cid EXCEPT ![p] = started + 1]
  /\ LET r == RedisRpush(db, input_key, StrV(StrArgs(data)))
     IN /\ db' = r.db
        /\ IF r.ok
           THEN /\ Goto(p, "count_calls", NoneV)
                /\ inOwner' = Append(inOwner, started + 1)
                /\ UNCHANGED done
           ELSE /\ Leave(p, Raise(r.exc))
                /\ done' = Log(started + 1, data, Raise(r.exc))
                /\ UNCHANGED inOwner
  /\ conv' = [conv EXCEPT ![p] = FALSE]
  /\ UNCHANGED <<outOwner, web>>

\* count_calls' wrapper without its increment.
count_calls_forgets(p) ==
  /\ pc[p] = "count_calls"
  /\ Goto(p, "store", NoneV)
  /\ UNCHANGED <<db, done, op, arg, printed, conv, nfetch, cid, started, inOwner, outOwner, web>>

\* count_calls' wrapper with its increment made twice.
count_calls_twice(p) ==
  /\ pc[p] = "count_calls"
  /\ LET r == RedisIncr(RedisIncr(db, QualName).db, QualName)
     IN /\ db' = r.db
        /\ IF r.ok
           THEN /\ Goto(p, "store", NoneV)
                /\ UNCHANGED done
           ELSE /\ Leave(p, Raise(r.exc))
                /\ done' = Log(cid[p], arg[p], Raise(r.exc))
  /\ UNCHANGED <<op, arg, printed, conv, nfetch, cid, started, inOwner, outOwner, web>>

\* count_calls' wrapper: the counter at the method's qualified name is
\* incremented, then the method is called.
count_calls(p) ==
  /\ pc[p] = "count_calls"
  /\ LET r == RedisIncr(db, QualName)
     IN /\ db' = r.db
        /\ IF r.ok
           THEN /\ Goto(p, "store", NoneV)
                /\ UNCHANGED done
           ELSE /\ Leave(p, Raise(r.exc))
                /\ done' = Log(cid[p], arg[p], Raise(r.exc))
  /\ UNCHANGED <<op, arg, printed, conv, nfetch, cid, started, inOwner, outOwner, web>>

\* Cache.store with the error of the write caught: the key is returned though
\* nothing was written.
store_swallows(p) ==
  /\ pc[p] = "store"
  /\ LET key == uuid4(db)
         r == RedisSet(db, key, arg[p])
     IN /\ db' = r.db
        /\ Goto(p, "call_history_out", StrV(key))
        /\ UNCHANGED done
  /\ UNCHANGED <<op, arg, printed, conv, nfetch, cid, started, inOwner, outOwner, web>>

\* Cache.store with a write that, when it fails, takes the increment of the
\* counter back.
store_rollback(p) ==
  /\ pc[p] = "store"
  /\ LET key == uuid4(db)
         r == RedisSet(db, key, arg[p])
         k == Utf8Encode(QualName)
     IN IF r.ok
        THEN /\ db' = r.db
             /\ Goto(p, "call_history_out", StrV(key))
             /\ UNCHANGED done
        ELSE /\ db' = Bind(db, k, StringE(ReprInt(PyInt(db[k].v).v - 1), {}))
             /\ Leave(p, Raise(r.exc))
             /\ done' = Log(cid[p], arg[p], Raise(r.exc))
  /\ UNCHANGED <<op, arg, printed, conv, nfetch, cid, started, inOwner, outOwner, web>>

\* Cache.store: a random key, and the data set under it.
store(p) ==
  /\ pc[p] = "store"
  /\ LET key == uuid4(db)
         r == RedisSet(db, key, arg[p])
     IN /\ db' = r.db
        /\ IF r.ok
           THEN /\ Goto(p, "call_history_out", StrV(key))
                /\ UNCHANGED done
           ELSE /\ Leave(p, Raise(r.exc))
                /\ done' = Log(cid[p], arg[p], Raise(r.exc))
  /\ UNCHANGED <<op, arg, printed, conv, nfetch, cid, started, inOwner, outOwner, web>>

\* call_history's wrapper after the wrapped method returned: the result is
\* pushed to ':outputs' and returned.
call_history_out(p) ==
  /\ pc[p] = "call_history_out"
  /\ LET result == loc[p]
         r == RedisRpush(db, output_key, StrV(result.v))
     IN /\ db' = r.db
        /\ IF r.ok
           THEN /\ Leave(p, Ok(result))
                /\ done' = Log(cid[p], arg[p], Ok(result))
                /\ outOwner' = Append(outOwner, cid[p])
           ELSE /\ Leave(p, Raise(r.exc))
                /\ done' = Log(cid[p], arg[p], Raise(r.exc))
                /\ UNCHANGED outOwner
  /\ UNCHANGED <<op, arg, printed, conv, nfetch, cid, started, inOwner, web>>

\* The converters: none (fn=None), get_str's d.decode("utf-8"), get_int's int(d).
Fns == {"None", "str", "int"}

ApplyFn(fn, val) ==
  CASE fn = "str" -> LET r == Utf8Decode(val.v) IN IF r.ok THEN Ok(StrV(r.v)) ELSE r
    [] fn = "int" -> LET r == PyInt(val.v) IN IF r.ok THEN Ok(IntV(r.v)) ELSE r

\* Cache.get without its test for None: the converter is applied to whatever
\* Redis returned.
get_unguarded(p, key, fn) ==
  /\ Enter(p, IF fn = "None" THEN "get" ELSE "get_" \o fn, StrV(key))
  /\ LET val == RedisGet(db, key)
         out == IF ~val.ok THEN val
                ELSE IF fn # "None"
                THEN (IF val.v = NoneV THEN Raise("TypeError") ELSE ApplyFn(fn, val.v))
                ELSE val
     IN /\ Leave(p, out)
        /\ conv' = [conv EXCEPT ![p] = val.ok /\ fn # "None"]
  /\ UNCHANGED <<db, cid, started, done, inOwner, outOwner, web>>

\* Cache.get with the exception of the converter caught: the call returns
\* None.
get_catches(p, key, fn) ==
  /\ Enter(p, IF fn = "None" THEN "get" ELSE "get_" \o fn, StrV(key))
  /\ LET val == RedisGet(db, key)
         out == IF ~val.ok THEN val
                ELSE IF val.v = NoneV THEN Ok(NoneV)
                ELSE IF fn # "None"
                THEN (IF ApplyFn(fn, val.v).ok THEN ApplyFn(fn, val.v) ELSE Ok(NoneV))
                ELSE val
     IN /\ Leave(p, out)
        /\ conv' = [conv EXCEPT ![p] = val.ok /\ val.v # NoneV /\ fn # "None"]
  /\ UNCHANGED <<db, cid, started, done, inOwner, outOwner, web>>

\* Cache.get(key, fn): get (fn "None"), get_str ("str") and get_int ("int").
get(p, key, fn) ==
  /\ Enter(p, IF fn = "None" THEN "get" ELSE "get_" \o fn, StrV(key))
  /\ LET val == RedisGet(db, key)
         out == IF ~val.ok THEN val
                ELSE IF val.v = NoneV THEN Ok(NoneV)
                ELSE IF fn # "None" THEN ApplyFn(fn, val.v)
                ELSE val
     IN /\ Leave(p, out)
        /\ conv' = [conv EXCEPT ![p] = val.ok /\ val.v # NoneV /\ fn # "None"]
  /\ UNCHANGED <<db, cid, started, done, inOwner, outOwner, web>>

\* " was called ", " times:", "(*" and ") -> "
WasCalled == <<32, 119, 97, 115, 32, 99, 97, 108, 108, 101, 100, 32>>
Times == <<32, 116, 105, 109, 101, 115, 58>>
OpenArgs == <<40, 42>>
Arrow == <<41, 32, 45, 62, 32>>

\* A pairing that takes the outputs from the last one back.
Zip_reversed(inputs, outputs) ==
  LET n == IF Len(inputs) <= Len(outputs) THEN Len(inputs) ELSE Len(outputs)
  IN [k \in 1..n |-> <<inputs[k], outputs[Len(outputs) + 1 - k]>>]

\* zip(inputs, outputs): pairs up to the shorter of the two.
Zip(inputs, outputs) ==
  LET n == IF Len(inputs) <= Len(outputs) THEN Len(inputs) ELSE Len(outputs)
  IN [k \in 1..n |-> <<inputs[k], outputs[k]>>]

\* f"{name}(*{i.decode('utf-8')}) -> {o.decode('utf-8')}", or the exception of
\* a decode.
Line(name, i, o) ==
  LET di == Utf8Decode(i)
      do == Utf8Decode(o)
  IN IF ~di.ok THEN di
     ELSE IF ~do.ok THEN do
     ELSE Ok(name \o OpenArgs \o di.v \o Arrow \o do.v)

RECURSIVE Lines(_, _)
\* The loop of replay over the pairs: the lines printed, and the exception
\* that ended the loop early, if one did.
Lines(name, pairs) ==
  IF pairs = <<>> THEN [out |-> <<>>, res |-> Ok(NoneV)]
  ELSE LET l == Line(name, pairs[1][1], pairs[1][2])
       IN IF ~l.ok THEN [out |-> <<>>, res |-> l]
          ELSE LET rest == Lines(name, Tail(pairs))
               IN [out |-> <<l.v>> \o rest.out, res |-> rest.res]

\* replay(cache.store), first command: the ':inputs' list is read.
replay_inputs(p) ==
  /\ Enter(p, "replay", NoneV)
  /\ LET inputs == RedisLrange(db, input_key)
     IN IF inputs.ok
        THEN Goto(p, "replay", [t |-> "list", v |-> inputs.v])
        ELSE Leave(p, inputs)
  /\ conv' = [conv EXCEPT ![p] = FALSE]
  /\ UNCHANGED <<db, cid, started, done, inOwner, outOwner, web>>

\* replay that counts itself as a call of the method.
replay_counted(p) ==
  /\ pc[p] = "replay"
  /\ LET name == QualName
         inputs == loc[p].v
         outputs == RedisLrange(db, output_key)
     IN IF outputs.ok
        THEN LET summary == name \o WasCalled \o ReprInt(Len(inputs)) \o Times
                 loop == Lines(name, Zip(inputs, outputs.v))
             IN /\ printed' = [printed EXCEPT ![p] = <<summary>> \o loop.out]
                /\ Leave(p, loop.res)
        ELSE /\ Leave(p, outputs)
             /\ UNCHANGED printed
  /\ db' = RedisIncr(db, QualName).db
  /\ UNCHANGED <<op, arg, conv, nfetch, cid, started, done, inOwner, outOwner, web>>

\* replay, the rest: the ':outputs' list is read, the summary line and one
\* line a pair are printed.
replay(p) ==
  /\ pc[p] = "replay"
  /\ LET name == QualName
         inputs == loc[p].v
         outputs == RedisLrange(db, output_key)
     IN IF outputs.ok
        THEN LET summary == name \o WasCalled \o ReprInt(Len(inputs)) \o Times
                 loop == Lines(name, Zip(inputs, outputs.v))
             IN /\ printed' = [printed EXCEPT ![p] = <<summary>> \o loop.out]
                /\ Leave(p, loop.res)
        ELSE /\ Leave(p, outputs)
             /\ UNCHANGED printed
  /\ UNCHANGED <<db, op, arg, conv, nfetch, cid, started, done, inOwner, outOwner, web>>

\* A store call, from its first command to its last.
StoreCall(p) ==
  \/ \E data \in Data : call_history(p, data)
  \/ count_calls(p)
  \/ store(p)
  \/ call_history_out(p)

\* The reads: get, get_str, get_int and replay.
ReadCall(p) ==
  \/ \E key \in GetKeys, fn \in Fns : get(p, key, fn)
  \/ replay_inputs(p)
  \/ replay(p)

\* Two callers of store, their steps interleaved.
NextStore == \E p \in Procs : StoreCall(p)
SpecStore == Init /\ [][NextStore]_vars

\* One caller of Cache: its calls do not overlap.
NextCache == StoreCall("c1") \/ ReadCall("c1")
SpecCache == Init /\ [][NextCache]_vars

\* ------------------------------------------------------------------ web.py
\* requests.get(url).text: the text the site serves now or the error of the
\* request; a url that is not http:// or https:// is an InvalidSchema error.
Fetch(url) == IF url \in HttpUrls THEN site[url] ELSE Raise("InvalidSchema")

\* History: get_page(url) has ended with r.
Ret(url, r) == [lastRet EXCEPT ![url] = r]

\* count_url_access' wrapper with one counter for every url, at 'count:'.
count_url_access_shared(p, url) ==
  /\ Enter(p, "get_page", StrV(url))
  /\ started < MaxCalls
  /\ started' = started + 1
  /\ calls' = [calls EXCEPT ![url] = @ + 1]
  /\ db' = RedisIncr(db, CountPrefix).db
  /\ Goto(p, "cache_result", NoneV)
  /\ conv' = [conv EXCEPT ![p] = FALSE]
  /\ UNCHANGED <<cid, done, inOwner, outOwner, since, lastRet, site>>

\* count_url_access' wrapper: the counter at 'count:{url}' is incremented,
\* then the wrapped function is called.
count_url_access(p, url) ==
  /\ Enter(p, "get_page", StrV(url))
  /\ started < MaxCalls
  /\ started' = started + 1
  /\ calls' = [calls EXCEPT ![url] = @ + 1]
  /\ LET redis_key == CountPrefix \o url
         r == RedisIncr(db, redis_key)
     IN /\ db' = r.db
        /\ IF r.ok
           THEN /\ Goto(p, "cache_result", NoneV)
                /\ UNCHANGED lastRet
           ELSE /\ Leave(p, Raise(r.exc))
                /\ lastRet' = Ret(url, Raise(r.exc))
  /\ conv' = [conv EXCEPT ![p] = FALSE]
  /\ UNCHANGED <<cid, done, inOwner, outOwner, since, site>>

\* cache_result's wrapper with a hit that sets the entry again, to expire in
\* `expire` seconds from the hit.
cache_result_refresh(p) ==
  /\ pc[p] = "cache_result"
  /\ LET url == arg[p].v
         cached_data == RedisGet(db, url)
     IN IF ~cached_data.ok
        THEN /\ Leave(p, cached_data)
             /\ lastRet' = Ret(url, cached_data)
             /\ UNCHANGED db
        ELSE IF cached_data.v # NoneV /\ cached_data.v.v # <<>>
        THEN LET d == Utf8Decode(cached_data.v.v)
                 r == IF d.ok THEN Ok(StrV(d.v)) ELSE d
             IN /\ Leave(p, r)
                /\ lastRet' = Ret(url, r)
                /\ db' = RedisSetex(db, url, TTL, cached_data.v).db
        ELSE /\ Goto(p, "get_page", NoneV)
             /\ UNCHANGED <<lastRet, db>>
  /\ UNCHANGED <<op, arg, printed, conv, nfetch, cid, started, done, inOwner,
                 outOwner, calls, since, site>>

\* cache_result's wrapper up to the call of the wrapped function: the entry
\* at url is read, and returned decoded if it is true (not None, not b'').
cache_result(p) ==
  /\ pc[p] = "cache_result"
  /\ LET url == arg[p].v
         cached_data == RedisGet(db, url)
     IN IF ~cached_data.ok
        THEN /\ Leave(p, cached_data)
             /\ lastRet' = Ret(url, cached_data)
        ELSE IF cached_data.v # NoneV /\ cached_data.v.v # <<>>
        THEN LET d == Utf8Decode(cached_data.v.v)
                 r == IF d.ok THEN Ok(StrV(d.v)) ELSE d
             IN /\ Leave(p, r)
                /\ lastRet' = Ret(url, r)
        ELSE /\ Goto(p, "get_page", NoneV)
             /\ UNCHANGED lastRet
  /\ UNCHANGED <<db, op, arg, printed, conv, nfetch, cid, started, done, inOwner,
                 outOwner, calls, since, site>>

\* get_page with the error of the request swallowed: the page is then ''.
get_page_swallows(p) ==
  /\ pc[p] = "get_page"
  /\ nfetch' = [nfetch EXCEPT ![p] = @ + 1]
  /\ LET url == arg[p].v
         response == Fetch(url)
     IN Goto(p, "cache_result_set", IF response.ok THEN response.v ELSE StrV(<<>>))
  /\ UNCHANGED <<db, op, arg, printed, conv, cid, started, done, inOwner, outOwner,
                 calls, since, lastRet, site>>

\* get_page: the page is fetched.
get_page(p) ==
  /\ pc[p] = "get_page"
  /\ nfetch' = [nfetch EXCEPT ![p] = @ + 1]
  /\ LET url == arg[p].v
         response == Fetch(url)
     IN IF response.ok
        THEN /\ Goto(p, "cache_result_set", response.v)
             /\ UNCHANGED lastRet
        ELSE /\ Leave(p, response)
             /\ lastRet' = Ret(url, response)
  /\ UNCHANGED <<db, op, arg, printed, conv, cid, started, done, inOwner, outOwner,
                 calls, since, site>>

\* cache_result's wrapper with r.set in the place of r.setex: the entry never
\* expires.
cache_result_set_forever(p) ==
  /\ pc[p] = "cache_result_set"
  /\ LET url == arg[p].v
         result == loc[p]
         r == RedisSet(db, url, result)
     IN /\ db' = r.db
        /\ Leave(p, Ok(result))
        /\ lastRet' = Ret(url, Ok(result))
        /\ since' = [since EXCEPT ![url] = {0}]
  /\ UNCHANGED <<op, arg, printed, conv, nfetch, cid, started, done, inOwner, outOwner,
                 calls, site>>

\* cache_result's wrapper with a write that leaves an entry that is there
\* alone (SET with NX): of two writes the first one stays.
cache_result_set_nx(p) ==
  /\ pc[p] = "cache_result_set"
  /\ LET url == arg[p].v
         result == loc[p]
         r == RedisSetex(db, url, TTL, result)
     IN /\ db' = IF Utf8Encode(url) \in DOMAIN db THEN db ELSE r.db
        /\ Leave(p, Ok(result))
        /\ lastRet' = Ret(url, Ok(result))
        /\ since' = [since EXCEPT ![url] = IF Utf8Encode(url) \in DOMAIN db THEN @ ELSE {0}]
  /\ UNCHANGED <<op, arg, printed, conv, nfetch, cid, started, done, inOwner, outOwner,
                 calls, site>>

\* cache_result's wrapper after the wrapped function returned: the result is
\* set at url, to expire in `expire` seconds, and returned.
cache_result_set(p) ==
  /\ pc[p] = "cache_result_set"
  /\ LET url == arg[p].v
         result == loc[p]
         r == RedisSetex(db, url, TTL, result)
     IN /\ db' = r.db
        /\ IF r.ok
           THEN /\ Leave(p, Ok(result))
                /\ lastRet' = Ret(url, Ok(result))
                /\ since' = [since EXCEPT ![url] = {0}]
           ELSE /\ Leave(p, Raise(r.exc))
                /\ lastRet' = Ret(url, Raise(r.exc))
                /\ UNCHANGED since
  /\ UNCHANGED <<op, arg, printed, conv, nfetch, cid, started, done, inOwner, outOwner,
                 calls, site>>

\* A second passes.
Tick ==
  /\ db' = Expire(db)
  /\ since' = [u \in Urls |-> {IF n < TTL THEN n + 1 ELSE n : n \in since[u]}]
  /\ UNCHANGED <<pc, op, arg, loc, res, printed, conv, nfetch, cid, started, done,
                 inOwner, outOwner, calls, lastRet, site>>

\* What fetching a url yields: a text, or a failure of the request.
Responses == {Ok(StrV(c)) : c \in Contents} \cup {Raise("ConnectionError")}

\* The site changes what it serves at url.
Serve(url, response) ==
  /\ site[url] # response
  /\ site' = [site EXCEPT ![url] = response]
  /\ UNCHANGED <<db, pc, op, arg, loc, res, printed, conv, nfetch, cid, started, done,
                 inOwner, outOwner, calls, since, lastRet>>

\* A get_page call, from its first command to its last.
PageCall(p) ==
  \/ \E url \in Urls : count_url_access(p, url)
  \/ cache_result(p)
  \/ get_page(p)
  \/ cache_result_set(p)

\* One caller of get_page, while time passes and the site changes.
NextWeb ==
  \/ PageCall("c1")
  \/ Tick
  \/ \E url \in HttpUrls, response \in Responses : Serve(url, response)
SpecWeb == Init /\ [][NextWeb]_vars

\* Two callers of get_page(UrlA) whose calls interleave, while time passes
\* and the site changes.
NextPages ==
  \/ \E p \in Procs : count_url_access(p, UrlA)
  \/ \E p \in Procs : cache_result(p) \/ get_page(p) \/ cache_result_set(p)
  \/ Tick
  \/ \E response \in Responses : Serve(UrlA, response)
SpecPages == Init /\ [][NextPages]_vars

\* ------------------------------------------------------------------ readings
\* The list at key (a str), empty when the key holds none.
ListAt(key) ==
  LET k == Utf8Encode(key)
  IN IF k \in DOMAIN db /\ db[k].t = "list" THEN db[k].v ELSE <<>>

\* The counter at key (a str): 0 when the key holds nothing, as INCR reads it.
CounterAt(key) ==
  LET k == Utf8Encode(key)
  IN IF k \in DOMAIN db /\ db[k].t = "string" THEN PyInt(db[k].v).v ELSE 0

Inputs == ListAt(input_key)
Outputs == ListAt(output_key)
Succeeded == {c \in DOMAIN done : done[c].res.ok}
Failed == {c \in DOMAIN done : ~done[c].res.ok}
AllIdle == \A p \in Procs : pc[p] = "idle"
GetOps == {"get", "get_str", "get_int"}

\* ------------------------------------------------------------------ claims
\* C1: after N successful store calls that do not overlap, starting from an
\* empty store, the counter at 'Cache.store' is N, ':inputs' and ':outputs'
\* hold N entries each, and the i-th entries are str(args) of the i-th call
\* and the key the i-th call returned.
C1_CountAndHistory ==
  (AllIdle /\ Failed = {}) =>
    LET N == Cardinality(DOMAIN done)
    IN /\ CounterAt(QualName) = N
       /\ Len(Inputs) = N
       /\ Len(Outputs) = N
       /\ \A i \in 1..N :
            /\ Inputs[i] = Utf8Encode(StrArgs(done[i].arg))
            /\ Outputs[i] = Utf8Encode(done[i].res.v.v)

C1_Witness ==
  /\ AllIdle /\ Failed = {} /\ Cardinality(DOMAIN done) = 3
  /\ CounterAt(QualName) = 3
  /\ done[1].arg = StrV(<<233>>) /\ done[3].arg = IntV(-7)

\* C2, as claimed: get with no converter returns the value that store was
\* given, whatever its type, and get_int returns the int that store was given.
C2_RoundTripAnyValue ==
  AllIdle =>
    \A c \in Succeeded :
      done[c].res.v = arg["c1"] =>
        /\ op["c1"] = "get" => res["c1"] = Ok(done[c].arg)
        /\ (op["c1"] = "get_int" /\ done[c].arg.t = "int") => res["c1"] = Ok(done[c].arg)

\* C2, amended: get with no converter returns a bytes value unchanged, and for
\* a str or an int the bytes Redis holds for it (the UTF-8 encoding of the
\* str, the decimal digits of the int); get_int returns the int that store
\* was given; other store calls in between change nothing of it.
C2_RoundTrip ==
  AllIdle =>
    \A c \in Succeeded :
      done[c].res.v = arg["c1"] =>
        LET v == done[c].arg
        IN /\ (op["c1"] = "get" /\ v.t = "bytes") => res["c1"] = Ok(v)
           /\ (op["c1"] = "get" /\ v.t = "str") => res["c1"] = Ok(BytesV(Utf8Encode(v.v)))
           /\ (op["c1"] = "get" /\ v.t = "int") => res["c1"] = Ok(BytesV(ReprInt(v.v)))
           /\ (op["c1"] = "get_int" /\ v.t = "int") => res["c1"] = Ok(v)

\* A get_int of the key of the first of two stored values returns that value.
C2_Witness ==
  /\ AllIdle /\ op["c1"] = "get_int" /\ res["c1"] = Ok(IntV(-7))
  /\ 1 \in Succeeded /\ 2 \in Succeeded
  /\ done[1].res.v = arg["c1"] /\ done[1].arg = IntV(-7) /\ done[2].arg # IntV(-7)

\* A step of get, get_str or get_int by caller p: a call that starts and ends
\* in the one step.
GetStep(p) == pc[p] = "idle" /\ pc'[p] = "idle" /\ op'[p] \in GetOps

\* C3, as claimed: for a key that no store call has returned, get, get_str and
\* get_int return None, do not apply the converter and leave the store alone.
C3_NeverReturnedKey ==
  [][\A p \in Procs :
       (GetStep(p) /\ \A c \in Succeeded : done[c].res.v # arg'[p]) =>
         (res'[p] = Ok(NoneV) /\ ~conv'[p] /\ db' = db)]_vars

\* C3, amended: for a key that holds nothing in the database (not a stored
\* record, and not the counter or a history list of a decorator either), get,
\* get_str and get_int return None, do not apply the converter and leave the
\* store alone.
C3_AbsentKey ==
  [][\A p \in Procs :
       (GetStep(p) /\ Utf8Encode(arg'[p].v) \notin DOMAIN db) =>
         (res'[p] = Ok(NoneV) /\ ~conv'[p] /\ db' = db)]_vars

\* After a store, a get_int of an identifier that store has not returned.
C3_Witness ==
  /\ AllIdle /\ op["c1"] = "get_int" /\ Utf8Encode(arg["c1"].v) \notin DOMAIN db
  /\ res["c1"] = Ok(NoneV) /\ ~conv["c1"] /\ Succeeded # {}

\* C8: a store call whose wrapped operation failed has left its input in
\* ':inputs' and pushed nothing to ':outputs', and its caller got the
\* exception: every failed call makes ':inputs' one entry longer than
\* ':outputs'.
C8_FailedCall ==
  AllIdle =>
    /\ Len(Inputs) - Len(Outputs) = Cardinality(Failed)
    /\ \A c \in Failed :
         /\ Inputs[c] = Utf8Encode(StrArgs(done[c].arg))
         /\ \A i \in 1..Len(outOwner) : outOwner[i] # c
         /\ done[c].res = Raise("DataError")
    /\ (op["c1"] = "store" /\ cid["c1"] \in Failed) => res["c1"] = Raise("DataError")

\* store(None) has failed, and a later store has succeeded.
C8_Witness ==
  /\ AllIdle /\ 1 \in Failed /\ 2 \in Succeeded
  /\ Len(Inputs) = 2 /\ Len(Outputs) = 1 /\ res["c1"].ok

\* C9: whenever no store call is in progress, after N store calls that all
\* returned, issued by interleaving callers, ':inputs' and ':outputs' hold N
\* entries each and the i-th output comes from the call of the i-th input.
C9_PairedHistory ==
  (AllIdle /\ Failed = {}) =>
    /\ Len(Inputs) = Cardinality(DOMAIN done)
    /\ Len(Outputs) = Cardinality(DOMAIN done)
    /\ inOwner = outOwner

\* C10: replay prints a summary line that reports len(inputs) calls, then
\* min(len(inputs), len(outputs)) lines, the i-th made of the i-th input and
\* the i-th output; with nothing recorded it reports 0 and prints no line.
C10_Replay ==
  (AllIdle /\ op["c1"] = "replay") =>
    LET out == printed["c1"]
        n == IF Len(Inputs) <= Len(Outputs) THEN Len(Inputs) ELSE Len(Outputs)
    IN /\ res["c1"] = Ok(NoneV)
       /\ Len(out) = n + 1
       /\ out[1] = QualName \o WasCalled \o Digits(Len(Inputs)) \o Times
       /\ \A i \in 1..n :
            Utf8Encode(out[i + 1]) = QualName \o OpenArgs \o Inputs[i] \o Arrow \o Outputs[i]
       /\ (Inputs = <<>>) => out = <<QualName \o WasCalled \o <<48>> \o Times>>

\* A replay after three calls of which the second failed: two lines.
C10_Witness ==
  /\ AllIdle /\ op["c1"] = "replay" /\ Len(printed["c1"]) = 3
  /\ Len(Inputs) = 3 /\ Len(Outputs) = 2

\* Caller p's step from label l: the command of its call that stands at l.
StepFrom(p, l) == pc[p] = l /\ pc'[p] # l

\* C4: a get_page(url) call that reads the cache less than TTL seconds after
\* get_page wrote the entry, the call before it having returned a value,
\* returns that same value without invoking the underlying fetch, whatever
\* the content (the empty text too).
C4_OneFetchPerWindow ==
  [][\A p \in Procs :
       LET url == arg[p].v
       IN (StepFrom(p, "cache_result") /\ lastRet[url].ok /\ \E n \in since[url] : n < TTL) =>
            (pc'[p] = "idle" /\ res'[p] = lastRet[url] /\ nfetch'[p] = 0)]_vars

\* C5: a get_page(url) call that reads the cache TTL seconds or more after
\* get_page wrote the entry does not return from the cache but goes on to the
\* underlying fetch; and a call that has fetched a value sets it at url with
\* TTL seconds to live and returns it.
C5_Expiry ==
  [][\A p \in Procs :
       LET url == arg[p].v
       IN /\ (StepFrom(p, "cache_result") /\ since[url] = {TTL}) =>
               (pc'[p] = "get_page" /\ nfetch'[p] = 0 /\ db' = db)
          /\ (StepFrom(p, "get_page") /\ Fetch(url).ok) =>
               (pc'[p] = "cache_result_set" /\ nfetch'[p] = nfetch[p] + 1 /\ loc'[p] = Fetch(url).v)
          /\ StepFrom(p, "cache_result_set") =>
               /\ pc'[p] = "idle"
               /\ res'[p] = Ok(loc[p])
               /\ db'[Utf8Encode(url)] = StringE(Utf8Encode(loc[p].v), {TTL})]_vars

\* TTL seconds after the first call wrote 'é' at "http://a", the second call
\* has missed and has fetched the text that the site serves now, ''.
C5_Witness ==
  /\ pc["c1"] = "cache_result_set" /\ arg["c1"] = StrV(UrlA) /\ calls[UrlA] = 2
  /\ since[UrlA] = {TTL} /\ lastRet[UrlA] = Ok(StrV(<<233>>))
  /\ nfetch["c1"] = 1 /\ loc["c1"] = StrV(<<>>)
  /\ Utf8Encode(UrlA) \notin DOMAIN db

\* C6: the counter at 'count:<url>' is the number of get_page(url) calls made,
\* hits and misses alike; a call for one url leaves the counters of the
\* others alone.
C6_AccessCount ==
  \A url \in Urls : CounterAt(CountPrefix \o url) = calls[url]

\* Two calls for "http://a", the second a hit, and one for "http://b".
C6_Witness ==
  /\ AllIdle /\ calls[UrlA] = 2 /\ calls[UrlB] = 1
  /\ op["c1"] = "get_page" /\ arg["c1"] = StrV(UrlA) /\ nfetch["c1"] = 0 /\ res["c1"].ok
  /\ CounterAt(CountPrefix \o UrlA) = 2 /\ CounterAt(CountPrefix \o UrlB) = 1

\* C7: when the underlying fetch fails, the call ends there with the error of
\* the fetch, the database is as it was (no entry written for url), and the
\* fetch has been invoked once.
C7_FetchFails ==
  [][\A p \in Procs :
       LET url == arg[p].v
       IN (StepFrom(p, "get_page") /\ ~Fetch(url).ok) =>
            /\ pc'[p] = "idle"
            /\ res'[p] = Fetch(url)
            /\ db' = db
            /\ nfetch'[p] = 1]_vars

\* The fetch of "http://a" has failed: the call has raised and there is no
\* entry for the url.
C7_Witness ==
  /\ AllIdle /\ op["c1"] = "get_page" /\ arg["c1"] = StrV(UrlA)
  /\ res["c1"] = Raise("ConnectionError") /\ nfetch["c1"] = 1
  /\ Utf8Encode(UrlA) \notin DOMAIN db

\* C11: get_int on a key whose stored bytes are not an integer raises the
\* error of the conversion (ValueError) to the caller, and the database is
\* after the call what it was before it.
C11_FormatError ==
  [][\A p \in Procs :
       LET k == Utf8Encode(arg'[p].v)
       IN (/\ GetStep(p) /\ op'[p] = "get_int"
           /\ k \in DOMAIN db /\ db[k].t = "string" /\ ~PyInt(db[k].v).ok) =>
            (res'[p] = Raise("ValueError") /\ conv'[p] /\ db' = db)]_vars

\* get_int of the key under which store('é') put its data has raised.
C11_Witness ==
  /\ AllIdle /\ op["c1"] = "get_int" /\ res["c1"] = Raise("ValueError")
  /\ \E c \in Succeeded : done[c].res.v = arg["c1"] /\ done[c].arg = StrV(<<233>>)
  /\ Len(Inputs) = Cardinality(DOMAIN done)

\* The records store has written: the keys uuid4 made that hold an entry.
Records == {i \in 1..(MaxCalls + 1) : Utf8Encode(Uuid(i)) \in DOMAIN db}

\* C12, as claimed: within a store call the counter is incremented, then the
\* input is appended, then the record is written, then the output is
\* appended, then the key is returned; an event that comes later in this
\* order has never happened more often than one that comes earlier.
C12_CounterThenInput ==
  /\ Len(Inputs) <= CounterAt(QualName)
  /\ Cardinality(Records) <= Len(Inputs)
  /\ Len(Outputs) <= Cardinality(Records)
  /\ Cardinality(Succeeded) <= Len(Outputs)

\* C12, amended: within a store call the input is appended, then the counter
\* is incremented, then the record is written, then the output is appended,
\* then the key is returned; with one caller, at each position in a call
\* exactly the events before that position have happened.
C12_InputThenCounter ==
  LET n == started
      k == Cardinality(Succeeded)
      at == pc["c1"]
  IN /\ CounterAt(QualName) <= Len(Inputs)
     /\ Cardinality(Records) <= CounterAt(QualName)
     /\ Len(Outputs) <= Cardinality(Records)
     /\ k <= Len(Outputs)
     /\ Len(Inputs) = n
     /\ CounterAt(QualName) = IF at = "count_calls" THEN n - 1 ELSE n
     /\ Cardinality(Records) = IF at = "call_history_out" THEN k + 1 ELSE k
     /\ Len(Outputs) = k
     /\ at = "call_history_out" => Utf8Encode(loc["c1"].v) \in DOMAIN db

\* A second store call has appended its input and not yet incremented the
\* counter.
C12_Witness ==
  /\ pc["c1"] = "count_calls" /\ started = 2
  /\ Len(Inputs) = 2 /\ CounterAt(QualName) = 1
  /\ Cardinality(Records) = 1 /\ Len(Outputs) = 1 /\ Cardinality(Succeeded) = 1

\* The callers whose store call is at one of the labels ls.
At(ls) == {p \in Procs : pc[p] \in ls}

\* C13: in every store call, of callers that interleave too, the input is
\* appended before the counter is incremented (call_history is the outer
\* wrapper), both before the record is written; an output is appended only
\* for a call whose write succeeded, and it is the key of a record; the
\* counter has been incremented once for each call that has reached or passed
\* the write, whether the write succeeded or failed.
C13_OuterHistory ==
  /\ Len(Inputs) = started
  /\ CounterAt(QualName) = started - Cardinality(At({"count_calls"}))
  /\ Cardinality(Records) + Cardinality(Failed) + Cardinality(At({"store"}))
       = CounterAt(QualName)
  /\ Cardinality(Records) = Len(Outputs) + Cardinality(At({"call_history_out"}))
  /\ \A i \in 1..Len(Outputs) :
       /\ Outputs[i] \in DOMAIN db
       /\ outOwner[i] \in Succeeded
  /\ \A c \in Failed : \A i \in 1..Len(outOwner) : outOwner[i] # c

\* One call has failed in its write; of two calls that interleave, one has
\* written its record and not yet appended its output, the other has appended
\* its input and not yet incremented the counter.
C13_Witness ==
  /\ Cardinality(Failed) = 1
  /\ pc["c1"] = "call_history_out" /\ pc["c2"] = "count_calls"
  /\ Len(Inputs) = 3 /\ CounterAt(QualName) = 2
  /\ Cardinality(Records) = 1 /\ Outputs = <<>>

\* C14: a get_page(url) call that returns what it read at url returns a value
\* that get_page(url) wrote there: the key of the cache entry of url is the
\* key of no access counter, so that no call returns a counter, or the entry
\* of another resource, as the page.
C14_KeyIsolation ==
  [][\A p \in Procs :
       (StepFrom(p, "cache_result") /\ pc'[p] = "idle" /\ res'[p].ok) =>
         LET url == arg[p].v
         IN /\ since[url] # {}
            /\ \A other \in Urls : Utf8Encode(url) # Utf8Encode(CountPrefix \o other)]_vars

\* Caller p's get_page call ends with the value it read in the cache.
Hit(p) == StepFrom(p, "cache_result") /\ pc'[p] = "idle" /\ res'[p].ok

\* C15: a cache hit of get_page(url) writes nothing: the database, the value
\* and the remaining time of the entry with it, is after the hit what it was
\* before; and an entry written s seconds ago expires in TTL - s seconds,
\* whatever the number of hits since.
C15_HitWritesNothing ==
  [][/\ \A p \in Procs : Hit(p) => db' = db
     /\ \A url \in HttpUrls :
          LET k == Utf8Encode(url)
          IN k \in DOMAIN db' =>
               \E s \in since'[url] : s < TTL /\ db'[k].exp = {TTL - s}]_vars

\* Two hits, one and two seconds after the miss that wrote the entry: the
\* entry expires in TTL - 2 seconds.
C15_Witness ==
  /\ AllIdle /\ op["c1"] = "get_page" /\ arg["c1"] = StrV(UrlA)
  /\ calls[UrlA] = 3 /\ nfetch["c1"] = 0 /\ res["c1"] = Ok(StrV(<<233>>))
  /\ since[UrlA] = {2}
  /\ Utf8Encode(UrlA) \in DOMAIN db /\ db[Utf8Encode(UrlA)].exp = {TTL - 2}
  /\ CounterAt(CountPrefix \o UrlA) = 3

\* The counter at key (a str) in the database d.
CounterIn(d, key) ==
  LET k == Utf8Encode(key)
  IN IF k \in DOMAIN d /\ d[k].t = "string" THEN PyInt(d[k].v).v ELSE 0

\* C16: two callers of get_page(url) whose calls interleave in any way.  A
\* caller that missed holds, from its fetch to its write, the text the site
\* served when it fetched; it writes that text, to expire in TTL seconds,
\* over whatever the entry holds, and returns it; a caller that hit returns
\* the text of the entry; the entry gets a value from such writes only; and
\* the counter at 'count:<url>' has grown by one for each call, so that it
\* is the number of calls when the callers have finished.
C16_TwoCallers ==
  [][LET k == Utf8Encode(UrlA)
         Entry(d) == IF k \in DOMAIN d THEN {d[k].v} ELSE {}
     IN /\ \A p \in Procs :
             /\ (StepFrom(p, "get_page") /\ pc'[p] = "cache_result_set") =>
                  (site[UrlA].ok /\ loc'[p] = site[UrlA].v)
             /\ (pc[p] = "cache_result_set" /\ pc'[p] = "cache_result_set") =>
                  loc'[p] = loc[p]
             /\ StepFrom(p, "cache_result_set") =>
                  /\ res'[p] = Ok(loc[p])
                  /\ k \in DOMAIN db'
                  /\ db'[k] = StringE(Utf8Encode(loc[p].v), {TTL})
             /\ Hit(p) =>
                  /\ res'[p].v.t = "str"
                  /\ Entry(db) = {Utf8Encode(res'[p].v.v)}
        /\ (Entry(db') # Entry(db) /\ Entry(db') # {}) =>
             \E p \in Procs : StepFrom(p, "cache_result_set")
        /\ CounterIn(db', CountPrefix \o UrlA) = started'
        /\ CounterIn(db', CountPrefix \o UrlA) >= CounterIn(db, CountPrefix \o UrlA)]_vars

\* Both callers read a miss on the entry that was absent and both fetched:
\* one has written 'é' and returned it, the other is about to write '' over
\* it; the counter is 2.
C16_Witness ==
  /\ started = 2 /\ CounterAt(CountPrefix \o UrlA) = 2
  /\ pc["c1"] = "idle" /\ res["c1"] = Ok(StrV(<<233>>)) /\ nfetch["c1"] = 1
  /\ pc["c2"] = "cache_result_set" /\ loc["c2"] = StrV(<<>>) /\ nfetch["c2"] = 1
  /\ since[UrlA] = {0}
  /\ Utf8Encode(UrlA) \in DOMAIN db
  /\ db[Utf8Encode(UrlA)] = StringE(Utf8Encode(<<233>>), {TTL})

\* C17: the step of a store call that writes puts the data under a key that
\* held nothing before, and no step of any call (store, get, get_str, get_int,
\* replay) changes or removes a record that is there.
C17_FreshKey ==
  [][/\ \A p \in Procs :
          (StepFrom(p, "store") /\ pc'[p] = "call_history_out") =>
            LET k == Utf8Encode(loc'[p].v)
            IN /\ k \notin DOMAIN db
               /\ k \in DOMAIN db'
               /\ db'[k] = StringE(Encode(arg[p]).v, {})
     /\ \A i \in Records :
          LET k == Utf8Encode(Uuid(i))
          IN k \in DOMAIN db' /\ db'[k] = db[k]]_vars

\* Two records, 'é' and -7, written one after the other, are as they were
\* written after a replay that printed both calls.
C17_Witness ==
  /\ AllIdle /\ op["c1"] = "replay" /\ Len(printed["c1"]) = 3
  /\ Records = {1, 2}
  /\ db[Utf8Encode(Uuid(1))] = StringE(Utf8Encode(<<233>>), {})
  /\ db[Utf8Encode(Uuid(2))] = StringE(ReprInt(-7), {})

\* C18: a replay call writes nothing: at each of its two steps (the read of
\* ':inputs', the read of ':outputs' and the printing) the database, that is
\* the counter, the two lists and every record, is after the step what it was
\* before.
C18_ReplayReadOnly ==
  [][\A p \in Procs :
       (op'[p] = "replay" /\ pc'[p] # pc[p]) => db' = db]_vars

\* A replay has printed the summary and one line a call, of two calls, one of
\* which failed after its input was pushed.
C18_Witness ==
  /\ AllIdle /\ op["c1"] = "replay" /\ res["c1"].ok
  /\ Len(Inputs) = 2 /\ Len(Outputs) = 1 /\ CounterAt(QualName) = 2
  /\ Len(printed["c1"]) = 2 /\ Cardinality(Records) = 1

\* The list at key (a str) in the database d.
ListIn(d, key) ==
  LET k == Utf8Encode(key)
  IN IF k \in DOMAIN d /\ d[k].t = "list" THEN d[k].v ELSE <<>>

\* C19: in every state of store calls, of two callers that interleave, in the
\* middle of a call and after a failed one too, ':outputs' is not longer than
\* the counter says and the counter is not more than the length of
\* ':inputs'; and no step makes the counter smaller.
C19_Ordered ==
  [][/\ Len(ListIn(db', output_key)) <= CounterIn(db', QualName)
     /\ CounterIn(db', QualName) <= Len(ListIn(db', input_key))
     /\ CounterIn(db, QualName) <= CounterIn(db', QualName)]_vars

\* One call has failed, one is between its write and the push of its output,
\* one between the push of its input and the increment: 0 < 2 < 3.
C19_Witness ==
  /\ Failed # {}
  /\ pc["c2"] = "call_history_out" /\ pc["c1"] = "count_calls"
  /\ Len(Outputs) = 0 /\ CounterAt(QualName) = 2 /\ Len(Inputs) = 3

====
